---------------------------- MODULE Spec2Model ----------------------------
(***************************************************************************)
(* Model of the alignment-task / optimizer / history-logger core of the    *)
(* MFX digital twin (src/full_simulator).                                  *)
(*                                                                         *)
(* Quantisation.  Positions and detector readings are floats in the        *)
(* source; here they are integers in a fixed unit per quantity (0.5e-6 for *)
(* the MFX motors, degrees and millimetres for the von Hamos pose).        *)
(* sqrt and linspace are computed with floor rounding.                     *)
(***************************************************************************)
EXTENDS Integers, Sequences, FiniteSets, TLC

(***************************************************************************)
(* Bounds of the model.                                                    *)
(***************************************************************************)
MaxTrials == 2      \* largest trial budget n_trials / n_calls
MaxLogs   == 3      \* most log calls made on a logger used on its own
MaxIoFaults == 1    \* most file operations that fail on one logger
MaxP      == 2      \* largest points_per_dim of grid_search
MaxGrid   == 4      \* largest grid size p^d explored
NCrl      == 1      \* number of lenses in sim.tfs_list

(***************************************************************************)
(* Program constants.                                                      *)
(***************************************************************************)
LARGE_PENALTY   == 1000000                \* 1e6
Inf             == LARGE_PENALTY * 1000   \* float("inf"): above every cost
UndulatorHalf   == 5                      \* 2.5e-6
PitchDefault    == -1104                  \* -0.000552
PitchHalf       == 3                      \* 1.5e-6
TransfocatorLow == -10                    \* -5e-6
TransfocatorHigh == 10                    \* 5e-6
FirstCrl        == 2                      \* enumerate(sim.tfs_list, start=2)
PitchRange      == 1                      \* np.deg2rad(1), in degrees
YawRange        == 5                      \* np.deg2rad(5), in degrees
YRange          == 5                      \* 5.0 mm

Variants == {"UndulatorPointing", "BeamSteering", "Transfocator", "VonHamos"}

VARIABLES
    mode,           \* which driver runs: "task", "random", "grid", "bayes", "logger",
                    \* "reader", "scan"
    \* ---- Simulation Adapter (mfx.MFX instance) and the xrt plot objects
    beam_params,    \* sim.beam_params: [ax, ay]
    mr1l4_pitch,    \* sim.mr1l4_pitch position
    tfs,            \* lens motors: tfs[i] = [x, y] for sim.tfs_<i>_x / _y
    crl_enabled,    \* crl_enabled[i] = sim.tfs_list[i - 2].enabled
    det,            \* readings [cx, cy, wx, wy] of the screen the task reads
    plot,           \* self.plots[0] of VonHamosTask: [cx, cy, dx, dy]
    \* ---- AlignmentTask instance
    variant,        \* the task class
    enabled_crls,   \* TransfocatorTask.enabled_crls (lens indices)
    vh_bounds,      \* VonHamosTask.bounds
    last_vals,      \* VonHamosTask.last_vals
    last_plot,      \* VonHamosTask.last_plot: "None" or "plots0"
    pf,             \* _propagation_failed: "unset" (no attribute), "True", "False"
    \* ---- observation of the calls made directly on the task
    call,           \* last set_dofs call: [op, raised, pfail, values]
    last_eval,      \* evaluate_objective calls since the last set_dofs: [n, raised, val]
    bounds0,        \* get_bounds() as returned right after construction
    \* ---- optimizer frame (simple_optimizer.py)
    pc, budget, i, candidate, cost, best_dofs, best_cost, trials, told,
    \* ---- HistoryLogger
    logger,         \* [on, real_time_csv, save_images]
    history, header_written, csv, images, io_faults,
    png,            \* history_plot.png: what plot_cost_history drew, or NoPng
    log_call,       \* last call on the logger: [op, io_ok, diag, raised]
    best_result,    \* last get_best_result() call: [called, r], r what it returned
    \* ---- ScanGenerator (scan_generator.py)
    sims,           \* per mfx.MFX instance made so far, the task classes built on it
    default_values, \* self.default_values[task_name] of the task in hand
    n_points,       \* self.n_points
    gen,            \* generate_all_scans: [k, dof], names started and DOFs started
    scan            \* scan_single_dof frame: [pc, caller, dof_index, default_dofs, i, calls]

adapterVars == <<beam_params, mr1l4_pitch, tfs, crl_enabled, det, plot>>
taskVars    == <<variant, enabled_crls, vh_bounds, last_vals, last_plot, pf>>
callVars    == <<call, last_eval, bounds0>>
optVars     == <<pc, budget, i, candidate, cost, best_dofs, best_cost, trials, told>>
logVars     == <<logger, history, header_written, csv, images, io_faults, png, log_call,
                 best_result>>
scanVars    == <<sims, default_values, n_points, gen, scan>>
vars == <<mode, adapterVars, taskVars, callVars, optVars, logVars, scanVars>>

(***************************************************************************)
(* Arithmetic helpers.                                                     *)
(***************************************************************************)
Abs(x) == IF x < 0 THEN -x ELSE x

\* np.sqrt, rounded down to the model unit
Sqrt(n) == CHOOSE r \in 0..n : r * r <= n /\ (r + 1) * (r + 1) > n

RECURSIVE Pow(_, _)
Pow(b, e) == IF e = 0 THEN 1 ELSE b * Pow(b, e - 1)

Reading(cx, cy, wx, wy) == [cx |-> cx, cy |-> cy, wx |-> wx, wy |-> wy]
NoReading      == Reading(0, 0, 0, 0)
NoPlot         == [cx |-> 0, cy |-> 0, dx |-> 0, dy |-> 0]

CrlIds == FirstCrl..(FirstCrl + NCrl - 1)


(***************************************************************************)
(* Simulation Adapter.  The MFX model itself is an external collaborator:  *)
(* a motor write or a propagate may raise, and a propagate (successful or  *)
(* not) leaves some reading on the screen.                                 *)
(***************************************************************************)
Faults == {"none", "write", "propagate"}

\* a sample of the readings (centroid cx, cy and widths wx, wy) that the
\* screen read by task variant v can show after a propagate
ReadingsOf(v) ==
    CASE v = "UndulatorPointing" -> { Reading(0, 0, 0, 0), Reading(0 - 1, 0 - 1, 0, 0) }
      [] v = "BeamSteering"      -> { Reading(0, 0, 0, 0), Reading(0 - 1, 0, 0, 0) }
      [] v = "Transfocator"      -> { Reading(0, 0, 0, 0), Reading(0, 0 - 1, 0, 1) }
      [] OTHER                   -> { NoReading }

\* a sample of the (cx, cy, dx, dy) that a ray-tracing pass leaves in plots[0]
PlotReadings ==
    { [cx |-> 0, cy |-> 0, dx |-> 0, dy |-> 0],
      [cx |-> 0 - 1, cy |-> 0, dx |-> 2, dy |-> 0],
      [cx |-> 0, cy |-> 0 - 1, dx |-> 2, dy |-> 2] }

\* sim.propagate(): recomputes the observables
propagate == det' \in ReadingsOf(variant)

\* xrtrun.run_ray_tracing(plots=self.plots, ...): fills the shared plot objects
run_ray_tracing == plot' \in PlotReadings

(***************************************************************************)
(* AlignmentTask: get_bounds / get_dofs / get_observation /                *)
(* evaluate_objective of the four variants.                                *)
(***************************************************************************)
n_crls == Len(enabled_crls)

RECURSIVE TransfocatorBounds(_)
TransfocatorBounds(n) ==
    IF n = 0 THEN << >>
    ELSE TransfocatorBounds(n - 1)
            \o << <<TransfocatorLow, TransfocatorHigh>>, <<TransfocatorLow, TransfocatorHigh>> >>

\* a mutated get_bounds that recounts the lenses enabled now
get_bounds_recount ==
    CASE variant = "UndulatorPointing" ->
            << <<0 - UndulatorHalf, 0 + UndulatorHalf>>, <<0 - UndulatorHalf, 0 + UndulatorHalf>> >>
      [] variant = "BeamSteering" ->
            << <<PitchDefault - PitchHalf, PitchDefault + PitchHalf>> >>
      [] variant = "Transfocator" ->
            TransfocatorBounds(Cardinality({c \in CrlIds : crl_enabled[c]}))
      [] OTHER -> vh_bounds

get_bounds ==
    CASE variant = "UndulatorPointing" ->
            << <<0 - UndulatorHalf, 0 + UndulatorHalf>>, <<0 - UndulatorHalf, 0 + UndulatorHalf>> >>
      [] variant = "BeamSteering" ->
            << <<PitchDefault - PitchHalf, PitchDefault + PitchHalf>> >>
      [] variant = "Transfocator" -> TransfocatorBounds(n_crls)
      [] OTHER -> vh_bounds

\* a mutated get_dofs that reads the y motor of a lens before its x motor
RECURSIVE TransfocatorDofs_yx(_)
TransfocatorDofs_yx(crls) ==
    IF crls = << >> THEN << >>
    ELSE << tfs[Head(crls)].y, tfs[Head(crls)].x >> \o TransfocatorDofs_yx(Tail(crls))

RECURSIVE TransfocatorDofs(_)
TransfocatorDofs(crls) ==
    IF crls = << >> THEN << >>
    ELSE << tfs[Head(crls)].x, tfs[Head(crls)].y >> \o TransfocatorDofs(Tail(crls))

get_dofs ==
    CASE variant = "UndulatorPointing" -> << beam_params.ax, beam_params.ay >>
      [] variant = "BeamSteering"      -> << mr1l4_pitch >>
      [] variant = "Transfocator"      -> TransfocatorDofs(enabled_crls)
      [] OTHER                         -> last_vals

Some(v) == [some |-> TRUE, v |-> v]
None    == [some |-> FALSE, v |-> << >>]

get_observation ==
    CASE variant = "UndulatorPointing" -> Some(<< det.cx, det.cy >>)
      [] variant = "BeamSteering"      -> Some(<< det.cx >>)
      [] variant = "Transfocator"      -> Some(<< det.cx, det.cy, det.wx, det.wy >>)
      [] OTHER ->
            IF pf = "True" \/ last_plot = "None" THEN None
            ELSE Some(<< plot.cx, plot.cy, plot.dx \div 2, plot.dy \div 2 >>)

Returned(x) == [raised |-> FALSE, val |-> x]
Raised      == [raised |-> TRUE, val |-> 0]

\* getattr(self, "_propagation_failed", False)
propagation_failed == pf = "True"

\* a mutated evaluate_objective that ignores the flag
evaluate_objective_noflag ==
    LET o == get_observation.v IN
    CASE variant = "UndulatorPointing" -> Returned(Sqrt(o[1] * o[1] + o[2] * o[2]))
      [] variant = "BeamSteering" -> Returned(Abs(o[1]))
      [] variant = "Transfocator" ->
            Returned(Sqrt(o[1] * o[1] + o[2] * o[2]) + Abs(o[3] - o[4]))
      [] OTHER ->
            IF ~get_observation.some THEN Raised
            ELSE Returned(Sqrt(o[1] * o[1] + o[2] * o[2]) + Abs(o[3]) + Abs(o[4]))

evaluate_objective ==
    LET o == get_observation.v IN
    IF propagation_failed THEN Returned(LARGE_PENALTY)
    ELSE CASE variant = "UndulatorPointing" -> Returned(Sqrt(o[1] * o[1] + o[2] * o[2]))
           [] variant = "BeamSteering" -> Returned(Abs(o[1]))
           [] variant = "Transfocator" ->
                Returned(Sqrt(o[1] * o[1] + o[2] * o[2]) + Abs(o[3] - o[4]))
           [] OTHER ->
                \* cx, cy, dx, dy = None raises TypeError
                IF ~get_observation.some THEN Raised
                ELSE Returned(Sqrt(o[1] * o[1] + o[2] * o[2]) + Abs(o[3]) + Abs(o[4]))

(***************************************************************************)
(* set_dofs of the four variants.  fault says where the adapter fails in   *)
(* this call: nowhere, in a motor write, or in propagate / ray tracing.    *)
(* The outcome of the call is left in call'.                               *)
(***************************************************************************)
SetDofsCall(values, raised, pfail) ==
    [op |-> "set_dofs", raised |-> raised, pfail |-> pfail, values |-> values]

\* a mutated except/else of set_dofs that never sets the flag
FlagAfterPropagate_lost(failed) == "False"

\* except: self._propagation_failed = True / else: ... = False
FlagAfterPropagate(failed) == IF failed THEN "True" ELSE "False"

UndulatorPointing_set_dofs(values, fault) ==
    IF Len(values) # 2 \/ fault = "write"
    THEN \* ax, ay = values, or sim.undulator_pointing, raises outside the try
         /\ call' = SetDofsCall(values, TRUE, FALSE)
         /\ UNCHANGED <<adapterVars, taskVars>>
    ELSE /\ beam_params' = [ax |-> values[1], ay |-> values[2]]
         /\ propagate
         /\ pf' = FlagAfterPropagate(fault = "propagate")
         /\ call' = SetDofsCall(values, FALSE, fault = "propagate")
         /\ UNCHANGED <<mr1l4_pitch, tfs, crl_enabled, plot,
                        variant, enabled_crls, vh_bounds, last_vals, last_plot>>

BeamSteering_set_dofs(values, fault) ==
    IF Len(values) < 1 \/ fault = "write"
    THEN \* values[0], or sim.mr1l4_pitch.mv, raises outside the try
         /\ call' = SetDofsCall(values, TRUE, FALSE)
         /\ UNCHANGED <<adapterVars, taskVars>>
    ELSE /\ mr1l4_pitch' = values[1]
         /\ propagate
         /\ pf' = FlagAfterPropagate(fault = "propagate")
         /\ call' = SetDofsCall(values, FALSE, fault = "propagate")
         /\ UNCHANGED <<beam_params, tfs, crl_enabled, plot,
                        variant, enabled_crls, vh_bounds, last_vals, last_plot>>

\* the lens motors after the first k writes of set_dofs (x before y, lens by lens)
TfsAfter(values, k) ==
    [c \in CrlIds |->
        IF \E idx \in 1..n_crls : enabled_crls[idx] = c
        THEN LET idx == CHOOSE j \in 1..n_crls : enabled_crls[j] = c IN
             [x |-> IF 2 * idx - 1 <= k THEN values[2 * idx - 1] ELSE tfs[c].x,
              y |-> IF 2 * idx <= k THEN values[2 * idx] ELSE tfs[c].y]
        ELSE tfs[c]]

Transfocator_set_dofs(values, fault) ==
    IF Len(values) < 2 * n_crls \/ fault = "write"
    THEN \* values[2*idx] or a mv raises outside the try, after k writes
         /\ \E k \in 0..(2 * n_crls - 1) :
                /\ k <= Len(values)
                /\ tfs' = TfsAfter(values, k)
         /\ call' = SetDofsCall(values, TRUE, FALSE)
         /\ UNCHANGED <<beam_params, mr1l4_pitch, crl_enabled, det, plot, taskVars>>
    ELSE /\ tfs' = TfsAfter(values, 2 * n_crls)
         /\ propagate
         /\ pf' = FlagAfterPropagate(fault = "propagate")
         /\ call' = SetDofsCall(values, FALSE, fault = "propagate")
         /\ UNCHANGED <<beam_params, mr1l4_pitch, crl_enabled, plot,
                        variant, enabled_crls, vh_bounds, last_vals, last_plot>>

VonHamos_set_dofs(values, fault) ==
    IF Len(values) # 3
    THEN \* pitch_val, yaw_val, y_val = values raises
         /\ call' = SetDofsCall(values, TRUE, FALSE)
         /\ UNCHANGED <<adapterVars, taskVars>>
    ELSE /\ run_ray_tracing
         /\ IF fault = "none"
            THEN last_plot' = "plots0"
            ELSE last_plot' = "None"
         /\ pf' = FlagAfterPropagate(fault # "none")
         /\ last_vals' = values
         /\ call' = SetDofsCall(values, FALSE, fault # "none")
         /\ UNCHANGED <<beam_params, mr1l4_pitch, tfs, crl_enabled, det,
                        variant, enabled_crls, vh_bounds>>

\* no evaluate_objective since the last set_dofs
NoEval == [n |-> 0, raised |-> FALSE, val |-> 0]

set_dofs(values) ==
    /\ \E fault \in Faults :
         CASE variant = "UndulatorPointing" -> UndulatorPointing_set_dofs(values, fault)
           [] variant = "BeamSteering"      -> BeamSteering_set_dofs(values, fault)
           [] variant = "Transfocator"      -> Transfocator_set_dofs(values, fault)
           [] OTHER                         -> VonHamos_set_dofs(values, fault)
    /\ last_eval' = NoEval

(***************************************************************************)
(* Candidate vectors.                                                      *)
(***************************************************************************)
\* a sample of the vectors inside the box b: every DOF at its low end, and
\* the odd DOFs at top with the even ones low
Top(bj, kind) == IF kind = "high" THEN bj[2] ELSE (bj[1] + bj[2]) \div 2

BoxSamples(b, kind) ==
    { [j \in 1..Len(b) |-> b[j][1]],
      [j \in 1..Len(b) |-> IF j % 2 = 1 THEN Top(b[j], kind) ELSE b[j][1]] }

\* values a caller passes to set_dofs
Corners(b) == BoxSamples(b, "high")

(***************************************************************************)
(* Construction: mfx.MFX(...); sim.propagate(); task = TaskClass(sim).     *)
(***************************************************************************)
\* (pitch0, yaw0, center0[1]) of the aligned von Hamos beamline
Nominals == { <<70, 0, 260>> }

\* the enabled lenses in the order of sim.tfs_list
RECURSIVE EnabledFrom(_, _)
EnabledFrom(c, en) ==
    IF c > FirstCrl + NCrl - 1 THEN << >>
    ELSE (IF en[c] THEN << c >> ELSE << >>) \o EnabledFrom(c + 1, en)

NoCall == [op |-> "init", raised |-> FALSE, pfail |-> FALSE, values |-> << >>]

AdapterInit ==
    /\ beam_params = [ax |-> 0, ay |-> 0]
    /\ mr1l4_pitch = PitchDefault
    /\ tfs = [c \in CrlIds |-> [x |-> 0, y |-> 0]]
    /\ det \in ReadingsOf(variant)
    /\ plot = NoPlot

UndulatorPointing_init ==
    /\ variant = "UndulatorPointing"
    /\ crl_enabled = [c \in CrlIds |-> TRUE]
    /\ enabled_crls = << >> /\ vh_bounds = << >> /\ last_vals = << >>
    /\ last_plot = "None" /\ pf = "unset"

BeamSteering_init ==
    /\ variant = "BeamSteering"
    /\ crl_enabled = [c \in CrlIds |-> TRUE]
    /\ enabled_crls = << >> /\ vh_bounds = << >> /\ last_vals = << >>
    /\ last_plot = "None" /\ pf = "unset"

Transfocator_init ==
    /\ variant = "Transfocator"
    /\ crl_enabled \in [CrlIds -> BOOLEAN]
    /\ \E c \in CrlIds : crl_enabled[c]
    /\ enabled_crls = EnabledFrom(FirstCrl, crl_enabled)
    /\ vh_bounds = << >> /\ last_vals = << >>
    /\ last_plot = "None" /\ pf = "unset"

\* half-widths of (pitch_bounds, yaw_bounds, y_bounds) given to the
\* constructor: the defaults, or (0, 0) for each
VonHamosRanges == { <<PitchRange, YawRange, YRange>>, <<0, 0, 0>> }

VonHamos_init ==
    /\ variant = "VonHamos"
    /\ crl_enabled = [c \in CrlIds |-> TRUE]
    /\ enabled_crls = << >>
    /\ \E nom \in Nominals, rg \in VonHamosRanges :
          /\ vh_bounds = << <<nom[1] - rg[1], nom[1] + rg[1]>>,
                            <<nom[2] - rg[2], nom[2] + rg[2]>>,
                            <<nom[3] - rg[3], nom[3] + rg[3]>> >>
          /\ last_vals = nom
    /\ last_plot = "None"
    /\ pf = "False"

TaskInit ==
    /\ \/ UndulatorPointing_init
       \/ BeamSteering_init
       \/ Transfocator_init
       \/ VonHamos_init
    /\ AdapterInit
    /\ call = NoCall
    /\ last_eval = NoEval
    /\ bounds0 = get_bounds

OptIdle ==
    /\ pc = "idle" /\ budget = 0 /\ i = 0 /\ candidate = << >> /\ cost = 0
    /\ best_dofs = None /\ best_cost = Inf /\ trials = << >> /\ told = << >>

\* no scan_single_dof call has made a task call yet
NoCalls == [set_dofs |-> 0, evaluate_objective |-> 0, save_diagnostic |-> 0]

NoScan == [pc |-> "idle", caller |-> "none", dof_index |-> 0, default_dofs |-> << >>,
           i |-> 0, calls |-> NoCalls]

NoGen == [k |-> 0, dof |-> 0]

\* no ScanGenerator: mfx_sim = mfx.MFX(...); task = TaskClass(mfx_sim) builds
\* one task on one adapter
ScanIdle ==
    /\ sims = << {variant} >>
    /\ default_values = << >> /\ n_points = 0
    /\ gen = NoGen /\ scan = NoScan

NoLogger == [on |-> FALSE, real_time_csv |-> FALSE, save_images |-> FALSE]

\* return None, None of get_best_result
NoBest == [raised |-> FALSE, some |-> FALSE, dofs |-> << >>, cost |-> 0]

\* get_best_result() not called yet
NoResult == [called |-> FALSE, r |-> NoBest]

\* no plot file yet
NoPng == [drawn |-> FALSE, scatter |-> << >>, best_so_far |-> << >>]

LoggerCall(op, io_ok, diag, raised) ==
    [op |-> op, io_ok |-> io_ok, diag |-> diag, raised |-> raised]
NoLoggerCall == LoggerCall("init", TRUE, "off", FALSE)

LogIdle ==
    /\ logger = NoLogger /\ history = << >> /\ header_written = FALSE
    /\ csv = << >> /\ images = << >> /\ io_faults = 0
    /\ png = NoPng /\ log_call = NoLoggerCall /\ best_result = NoResult

(***************************************************************************)
(* HistoryLogger (history_logger.py).  The CSV file is the sequence of its *)
(* rows; csv.writer prints a float with repr, which reads back as the same *)
(* float, so a cell holds the logged number itself.                        *)
(***************************************************************************)
\* entry = {"trial": index, "cost": cost, "dof_0": ..., "dof_{k-1}": ...}
Entry(index, cand, c) == [trial |-> index, cost |-> c, dofs |-> cand]

\* writer.writeheader() with fieldnames = entry.keys(): trial, cost, dof_0 .. dof_{k-1}
HeaderRow(entry) == [hdr |-> TRUE, k |-> Len(entry.dofs), trial |-> 0, cost |-> 0, dofs |-> << >>]
\* writer.writerow(entry)
DataRow(entry) ==
    [hdr |-> FALSE, k |-> Len(entry.dofs), trial |-> entry.trial, cost |-> entry.cost,
     dofs |-> entry.dofs]

RECURSIVE DataRows(_)
DataRows(h) == IF h = << >> THEN << >> ELSE << DataRow(Head(h)) >> \o DataRows(Tail(h))

\* where a file operation fails in one call: nowhere, in the first open (the
\* file is left as it was), after open(csv_path, "w") truncated the file and
\* before the header got out, or while rows are written
IoOutcomes == {"ok", "fail_open", "fail_header", "fail_row"}

\* a mutated _append_to_csv that never records that the header was written
append_to_csv_reheader(file, hw, entry, io) ==
    IF io = "fail_open" THEN [csv |-> file, hw |-> hw]
    ELSE IF io = "fail_header" THEN [csv |-> << >>, hw |-> hw]
    ELSE IF io = "fail_row" THEN [csv |-> << HeaderRow(entry) >>, hw |-> hw]
    ELSE [csv |-> << HeaderRow(entry), DataRow(entry) >>, hw |-> hw]

\* _append_to_csv(entry): the file and header_written after the call
append_to_csv(file, hw, entry, io) ==
    IF io = "fail_open"
    THEN \* the first open of the call failed: nothing was written
         [csv |-> file, hw |-> hw]
    ELSE IF ~hw /\ io = "fail_header"
    THEN \* open(csv_path, "w") truncated the file, the header did not get out
         [csv |-> << >>, hw |-> FALSE]
    ELSE LET withHeader == IF hw THEN file ELSE << HeaderRow(entry) >> IN
         IF io = "ok"
         THEN [csv |-> Append(withHeader, DataRow(entry)), hw |-> TRUE]
         ELSE \* open(csv_path, "a") or writerow failed: the row is not in the file
              [csv |-> withHeader, hw |-> TRUE]

\* the prefixes of a sequence of rows
Prefixes(rows) == { SubSeq(rows, 1, n) : n \in 0..Len(rows) }

\* a mutated save_csv that opens the file with "a" and not "w"
save_csv_files_append(file, h, io) ==
    IF h = << >> \/ io # "ok" THEN { file }
    ELSE { file \o << HeaderRow(h[1]) >> \o DataRows(h) }

\* save_csv(): the files it can leave behind
save_csv_files(file, h, io) ==
    IF h = << >> THEN { file }
    ELSE LET full == << HeaderRow(h[1]) >> \o DataRows(h) IN
         IF io = "ok" THEN { full }
         ELSE IF io = "fail_open" THEN { file }
         ELSE IF io = "fail_header" THEN { << >> }
         ELSE Prefixes(full) \ { full }

\* file operations may fail at any time; the life of one logger is explored
\* with at most MaxIoFaults of them failing
FaultAllowed(n) == io_faults + n <= MaxIoFaults
CountFaults(n) == io_faults + n

\* a mutated logger without its except Exception around the file operations
LoggerHandler_uncaught(failed) == IF failed THEN "propagates" ELSE "returned"

\* try: <file operations> / except Exception: print(...) in _append_to_csv,
\* save_csv and plot_cost_history
LoggerHandler(failed) == IF failed THEN "caught" ELSE "returned"

\* a mutated log without the try/except around task.save_diagnostic
DiagHandler_uncaught(raised) == IF raised THEN "propagates" ELSE "returned"

\* try: task.save_diagnostic(index, self.output_dir) / except Exception
DiagHandler(raised) == IF raised THEN "caught" ELSE "returned"

\* task.save_diagnostic(index, output_dir) has an image to save
HasDiagnostic ==
    variant = "VonHamos" => (last_plot # "None" /\ pf # "True")

\* what task.save_diagnostic does when saving the image works (imgOk) or
\* fails: VonHamosTask catches the failure itself, the other tasks raise
save_diagnostic(imgOk) ==
    IF ~HasDiagnostic THEN "no_plot"
    ELSE IF imgOk THEN "saved"
    ELSE IF variant = "VonHamos" THEN "caught_in_task"
    ELSE "raised"

\* a mutated log that keeps only the newest entry
AppendEntry_replace(h, entry) == << entry >>

\* self.history.append(entry)
AppendEntry(h, entry) == Append(h, entry)

\* log(index, candidate, cost, task)
log(index, cand, c, withTask) ==
    \E io \in IoOutcomes, imgOk \in BOOLEAN :
        LET entry == Entry(index, cand, c)
            out   == append_to_csv(csv, header_written, entry, io)
            csvRaised == logger.real_time_csv /\ LoggerHandler(io # "ok") = "propagates"
            saves == logger.save_images /\ withTask /\ ~csvRaised
            diag  == IF saves THEN save_diagnostic(imgOk) ELSE "off"
            nfaults == (IF io # "ok" THEN 1 ELSE 0) + (IF imgOk THEN 0 ELSE 1)
        IN
        /\ (io # "ok") => logger.real_time_csv
        /\ (io = "fail_header") => ~header_written
        /\ ~imgOk => (saves /\ HasDiagnostic)
        /\ history' = AppendEntry(history, entry)
        /\ IF logger.real_time_csv
           THEN csv' = out.csv /\ header_written' = out.hw
           ELSE UNCHANGED <<csv, header_written>>
        /\ images' = IF diag = "saved" THEN Append(images, index) ELSE images
        /\ nfaults > 0 => FaultAllowed(nfaults)
        /\ io_faults' = CountFaults(nfaults)
        /\ log_call' = LoggerCall("log", io = "ok", diag,
                            csvRaised \/ DiagHandler(diag = "raised") = "propagates")
        /\ UNCHANGED <<logger, png, best_result>>

\* save_csv()
save_csv ==
    \E io \in IoOutcomes :
        /\ (io # "ok") => history # << >>
        /\ csv' \in save_csv_files(csv, history, io)
        /\ (io # "ok") => FaultAllowed(1)
        /\ io_faults' = CountFaults(1 - (IF io = "ok" THEN 1 ELSE 0))
        /\ log_call' = LoggerCall("save_csv", io = "ok", "off",
                            LoggerHandler(io # "ok") = "propagates")
        /\ UNCHANGED <<logger, history, header_written, images, png, best_result>>

\* penalty_threshold=1e6
penalty_threshold == LARGE_PENALTY

\* np.nan / a number in best_so_far
NaN == [nan |-> TRUE, v |-> 0]
Num(x) == [nan |-> FALSE, v |-> x]

\* a mutated filter that lets a cost equal to the threshold through
Plottable_incl(c) == c <= penalty_threshold /\ c < Inf

\* c < penalty_threshold and np.isfinite(c)
Plottable(c) == c < penalty_threshold /\ c < Inf

\* zip(scatter_trials, scatter_costs)
RECURSIVE scatter(_)
scatter(h) ==
    IF h = << >> THEN << >>
    ELSE (IF Plottable(Head(h).cost) THEN << <<Head(h).trial, Head(h).cost>> >> ELSE << >>)
            \o scatter(Tail(h))

\* the loop that fills best_so_far, current_best being np.inf at first
RECURSIVE best_so_far(_, _)
best_so_far(h, current_best) ==
    IF h = << >> THEN << >>
    ELSE LET c == Head(h).cost
             nb == IF Plottable(c) /\ c < current_best THEN c ELSE current_best
         IN  << IF nb < Inf THEN Num(nb) ELSE NaN >> \o best_so_far(Tail(h), nb)

\* plot_cost_history(): pngOk says whether building and saving the figure works
plot_cost_history ==
    \E pngOk \in BOOLEAN :
        /\ ~pngOk => (history # << >> /\ FaultAllowed(1))
        /\ png' = IF history # << >> /\ pngOk
                  THEN [drawn |-> TRUE, scatter |-> scatter(history),
                        best_so_far |-> best_so_far(history, Inf)]
                  ELSE png
        /\ io_faults' = CountFaults(IF pngOk THEN 0 ELSE 1)
        /\ log_call' = LoggerCall("plot_cost_history", pngOk, "off", LoggerHandler(~pngOk) = "propagates")
        /\ UNCHANGED <<logger, history, header_written, csv, images, best_result>>

\* a mutated get_best_result that keeps the last of the minimal entries
RECURSIVE MinEntry_last(_, _)
MinEntry_last(h, best) ==
    IF h = << >> THEN best
    ELSE MinEntry_last(Tail(h), IF Head(h).cost <= best.cost THEN Head(h) ELSE best)

\* min(self.history, key=lambda x: x["cost"]): scans left to right and keeps
\* the entry seen first among equals
RECURSIVE MinEntry(_, _)
MinEntry(h, best) ==
    IF h = << >> THEN best
    ELSE MinEntry(Tail(h), IF Head(h).cost < best.cost THEN Head(h) ELSE best)

\* best_dofs, best_cost of the entry min() picks
BestOf(h) ==
    LET best_entry == MinEntry(Tail(h), Head(h)) IN
    [raised |-> FALSE, some |-> TRUE,
     dofs |-> [j \in 1..Len(best_entry.dofs) |-> best_entry.dofs[j]],
     cost |-> best_entry.cost]

\* a mutated get_best_result without the test for an empty history: min() of
\* an empty list raises ValueError
get_best_result_noguard ==
    IF history = << >>
    THEN [raised |-> TRUE, some |-> FALSE, dofs |-> << >>, cost |-> 0]
    ELSE BestOf(history)

\* get_best_result()
get_best_result ==
    IF history = << >> THEN NoBest ELSE BestOf(history)

(***************************************************************************)
(* A caller that uses the task directly.                                   *)
(***************************************************************************)
\* a mutated evaluate_objective that consumes the failure flag
evaluate_objective_consumes == pf' = "False" /\ UNCHANGED <<adapterVars, variant, enabled_crls, vh_bounds, last_vals, last_plot>>

\* evaluate_objective assigns nothing
evaluate_objective_frame == UNCHANGED <<adapterVars, taskVars>>

TaskSetDofs ==
    /\ mode = "task"
    /\ \E values \in Corners(get_bounds) \cup { << >> } : set_dofs(values)
    /\ UNCHANGED <<mode, scanVars, bounds0, optVars, logVars>>

TaskEvaluate ==
    /\ mode = "task"
    /\ last_eval' = [n |-> IF last_eval.n < 2 THEN last_eval.n + 1 ELSE 2,
                     raised |-> evaluate_objective.raised,
                     val |-> evaluate_objective.val]
    /\ evaluate_objective_frame
    /\ UNCHANGED <<mode, scanVars, call, bounds0, optVars, logVars>>

\* the beamline enables or disables a lens after the task was built
ToggleCrl ==
    /\ mode = "task"
    /\ variant = "Transfocator"
    /\ \E c \in CrlIds : crl_enabled' = [crl_enabled EXCEPT ![c] = ~crl_enabled[c]]
    /\ UNCHANGED <<mode, scanVars, beam_params, mr1l4_pitch, tfs, det, plot, taskVars, callVars,
                   optVars, logVars>>

InitTask == mode = "task" /\ TaskInit /\ OptIdle /\ LogIdle /\ ScanIdle
NextTask == TaskSetDofs \/ TaskEvaluate \/ ToggleCrl
SpecTask == InitTask /\ [][NextTask]_vars

(***************************************************************************)
(* A caller that uses the logger directly.                                 *)
(***************************************************************************)
LogCands == { <<0, 1>>, <<1, 0>> }
LogCosts == { 0, 1, LARGE_PENALTY }

\* the (candidate, cost) pairs a caller logs: a sample with two candidates
\* of equal cost, a dearer one and a penalised one
LogInputs ==
    { e \in LogCands \X LogCosts :
        IF e[1] = <<0, 1>> THEN e[2] < LARGE_PENALTY ELSE e[2] # 1 }

LoggerConfigs == [on : {TRUE}, real_time_csv : BOOLEAN, save_images : BOOLEAN]

LoggerInit ==
    /\ logger \in LoggerConfigs
    /\ history = << >> /\ header_written = FALSE
    /\ csv = << >> /\ images = << >> /\ io_faults = 0
    /\ png = NoPng /\ log_call = NoLoggerCall /\ best_result = NoResult

LogLog ==
    /\ mode = "logger"
    /\ Len(history) < MaxLogs
    /\ \E e \in LogInputs : log(Len(history), e[1], e[2], TRUE)
    /\ UNCHANGED <<mode, scanVars, adapterVars, taskVars, callVars, optVars>>

LogSaveCsv ==
    /\ mode = "logger"
    /\ save_csv
    /\ UNCHANGED <<mode, scanVars, adapterVars, taskVars, callVars, optVars>>

LogPlot ==
    /\ mode = "logger"
    /\ plot_cost_history
    /\ UNCHANGED <<mode, scanVars, adapterVars, taskVars, callVars, optVars>>

(***************************************************************************)
(* A caller that logs in memory and reads the results back.                *)
(***************************************************************************)
ReadLog ==
    /\ mode = "reader"
    /\ Len(history) < MaxLogs
    /\ \E e \in LogInputs : log(Len(history), e[1], e[2], TRUE)
    /\ UNCHANGED <<mode, scanVars, adapterVars, taskVars, callVars, optVars>>

ReadGetBest ==
    /\ mode = "reader"
    /\ best_result' = [called |-> TRUE, r |-> get_best_result]
    /\ UNCHANGED <<mode, scanVars, adapterVars, taskVars, callVars, optVars, logger, history,
                   header_written, csv, images, io_faults, png, log_call>>

ReadPlot ==
    /\ mode = "reader"
    /\ plot_cost_history
    /\ UNCHANGED <<mode, scanVars, adapterVars, taskVars, callVars, optVars>>

InitLog ==
    /\ mode = "logger"
    /\ BeamSteering_init /\ AdapterInit /\ det = NoReading
    /\ call = NoCall /\ last_eval = NoEval /\ bounds0 = get_bounds
    /\ OptIdle /\ ScanIdle
    /\ LoggerInit
NextLog == LogLog \/ LogSaveCsv \/ LogPlot
SpecLog == InitLog /\ [][NextLog]_vars

InitRead ==
    /\ mode = "reader"
    /\ BeamSteering_init /\ AdapterInit /\ det = NoReading
    /\ call = NoCall /\ last_eval = NoEval /\ bounds0 = get_bounds
    /\ OptIdle /\ ScanIdle
    /\ LoggerInit /\ ~logger.real_time_csv /\ ~logger.save_images
NextRead == ReadLog \/ ReadGetBest \/ ReadPlot
SpecRead == InitRead /\ [][NextRead]_vars

(***************************************************************************)
(* The optimizers (simple_optimizer.py).                                   *)
(***************************************************************************)
\* a mutated linspace that forgets the low end
linspace_nolow(bj, points, k) ==
    IF points = 1 THEN 0 ELSE (k * (bj[2] - bj[1])) \div (points - 1)

\* np.linspace(low, high, points)[k]
linspace(bj, points, k) ==
    IF points = 1 THEN bj[1] ELSE bj[1] + (k * (bj[2] - bj[1])) \div (points - 1)

\* a mutated mesh that pairs the axes up instead of crossing them
GridAxisIndex_zip(r, j, d, points) == r % points

\* the index on axis j (1-based) of the r-th (0-based) row of
\* np.stack([m.flatten() for m in np.meshgrid(*grid_axes)], axis=-1):
\* meshgrid's default indexing "xy" lays the arrays out with the first two
\* axes swapped, and flatten() walks that layout with the last axis fastest
GridAxisIndex(r, j, d, points) ==
    LET pos == IF d >= 2 /\ j = 1 THEN 2 ELSE IF d >= 2 /\ j = 2 THEN 1 ELSE j
    IN  (r \div Pow(points, d - pos)) % points

\* grid_points, each row with the axis indices it was built from
grid_points(b, points) ==
    [r \in 1..(IF points = 0 THEN 0 ELSE Pow(points, Len(b))) |->
        [idx   |-> [j \in 1..Len(b) |-> GridAxisIndex(r - 1, j, Len(b), points)],
         point |-> [j \in 1..Len(b) |->
                        linspace(b[j], points, GridAxisIndex(r - 1, j, Len(b), points))]]]

\* number of iterations of the trial loop
NTrials == IF mode = "grid" THEN Len(grid_points(bounds0, budget)) ELSE budget

\* a mutated trial loop without the try/except around the evaluation
TrialHandler_uncaught(raised) == IF raised THEN "propagates" ELSE "returned"

\* try: set_dofs; evaluate_objective / except Exception
TrialHandler(raised) == IF raised THEN "caught" ELSE "returned"

\* a mutated comparison that also replaces the best on a tie
Better_ties(c, best) == c <= best

\* if cost < best_cost
Better(c, best) == c < best

\* a mutated bayesian_optimization that never tells the optimizer the cost
AfterEval_notell == "log"

\* opt.tell(candidate, cost) comes after the try block in bayesian_optimization
AfterEval == IF mode = "bayes" THEN "tell" ELSE "log"

\* a mutated loop body that evaluates before it sets the candidate
AfterPropose_eval == "eval"

\* the try block opens with task.set_dofs(candidate)
AfterPropose == "set"

OptPropose ==
    /\ pc = "loop" /\ i < NTrials
    /\ CASE mode = "random" -> candidate' \in BoxSamples(bounds0, "mid")
         [] mode = "bayes"  -> candidate' \in BoxSamples(bounds0, "high")
         [] OTHER           -> candidate' = grid_points(bounds0, budget)[i + 1].point
    /\ pc' = AfterPropose
    /\ UNCHANGED <<mode, scanVars, adapterVars, taskVars, callVars, budget, i, cost, best_dofs,
                   best_cost, trials, told, logVars>>

Trial(outcome, done, c) ==
    [cand |-> candidate,
     idx |-> IF mode = "grid" THEN grid_points(bounds0, budget)[i + 1].idx ELSE << >>,
     outcome |-> outcome, done |-> done, cost |-> c]

OptSetDofs ==
    /\ pc = "set"
    /\ set_dofs(candidate)
    /\ LET h == TrialHandler(call'.raised) IN
       CASE h = "returned" ->
                /\ trials' = Append(trials, Trial(IF call'.pfail THEN "pfail" ELSE "ok", FALSE, 0))
                /\ pc' = "eval" /\ cost' = cost
         [] h = "caught" ->
                /\ trials' = Append(trials, Trial("raise", TRUE, LARGE_PENALTY))
                /\ pc' = AfterEval /\ cost' = LARGE_PENALTY
         [] OTHER ->
                /\ trials' = Append(trials, Trial("raise", FALSE, 0))
                /\ pc' = "aborted" /\ cost' = cost
    /\ UNCHANGED <<mode, scanVars, bounds0, budget, i, candidate, best_dofs, best_cost, told, logVars>>

OptEvaluate ==
    /\ pc = "eval"
    /\ evaluate_objective_frame
    /\ last_eval' = [n |-> IF last_eval.n < 2 THEN last_eval.n + 1 ELSE 2,
                     raised |-> evaluate_objective.raised,
                     val |-> evaluate_objective.val]
    /\ LET r == evaluate_objective
           h == TrialHandler(r.raised)
           c == IF h = "returned" THEN r.val ELSE LARGE_PENALTY
       IN  IF h = "propagates"
           THEN pc' = "aborted" /\ UNCHANGED <<cost, trials>>
           ELSE /\ cost' = c
                /\ trials' = [trials EXCEPT ![Len(trials)].done = TRUE, ![Len(trials)].cost = c]
                /\ pc' = AfterEval
    /\ UNCHANGED <<mode, scanVars, call, bounds0, budget, i, candidate, best_dofs, best_cost, told,
                   logVars>>

\* opt.tell(candidate, cost)
OptTell ==
    /\ pc = "tell"
    /\ told' = Append(told, [cand |-> candidate, cost |-> cost])
    /\ pc' = "log"
    /\ UNCHANGED <<mode, scanVars, adapterVars, taskVars, callVars, budget, i, candidate, cost,
                   best_dofs, best_cost, trials, logVars>>

OptLog ==
    /\ pc = "log"
    /\ IF logger.on THEN log(i, candidate, cost, TRUE) ELSE UNCHANGED logVars
    /\ pc' = IF log_call'.raised THEN "aborted" ELSE "best"
    /\ UNCHANGED <<mode, scanVars, adapterVars, taskVars, callVars, budget, i, candidate, cost,
                   best_dofs, best_cost, trials, told>>

OptBest ==
    /\ pc = "best"
    /\ IF Better(cost, best_cost)
       THEN best_cost' = cost /\ best_dofs' = Some(candidate)
       ELSE UNCHANGED <<best_cost, best_dofs>>
    /\ i' = i + 1
    /\ pc' = "loop"
    /\ UNCHANGED <<mode, scanVars, adapterVars, taskVars, callVars, budget, candidate, cost, trials,
                   told, logVars>>

OptSaveCsv ==
    /\ pc = "loop" /\ i >= NTrials
    /\ logger.on
    /\ save_csv
    /\ pc' = IF log_call'.raised THEN "aborted" ELSE "plot"
    /\ UNCHANGED <<mode, scanVars, adapterVars, taskVars, callVars, budget, i, candidate, cost,
                   best_dofs, best_cost, trials, told>>

\* logger.plot_cost_history(), then return best_dofs, best_cost
OptPlot ==
    /\ pc = "plot"
    /\ plot_cost_history
    /\ pc' = IF log_call'.raised THEN "aborted" ELSE "done"
    /\ UNCHANGED <<mode, scanVars, adapterVars, taskVars, callVars, budget, i, candidate, cost,
                   best_dofs, best_cost, trials, told>>

\* return best_dofs, best_cost when no logger was given
OptReturn ==
    /\ pc = "loop" /\ i >= NTrials
    /\ ~logger.on
    /\ pc' = "done"
    /\ UNCHANGED <<mode, scanVars, adapterVars, taskVars, callVars, budget, i, candidate, cost,
                   best_dofs, best_cost, trials, told, logVars>>

InitOpt ==
    /\ mode \in {"random", "grid", "bayes"}
    /\ TaskInit
    \* Optimizer(dimensions=bounds) takes intervals with low < high
    /\ mode = "bayes" => \A j \in 1..Len(bounds0) : bounds0[j][1] < bounds0[j][2]
    /\ IF mode = "grid"
       THEN budget \in {pts \in 0..MaxP : pts = 0 \/ Pow(pts, Len(bounds0)) <= MaxGrid}
       ELSE budget \in 0..MaxTrials
    /\ pc = "loop" /\ i = 0 /\ candidate = << >> /\ cost = 0
    /\ best_dofs = None /\ best_cost = Inf /\ trials = << >> /\ told = << >>
    \* no logger, or one that writes the CSV as it goes, or one that saves images
    /\ \/ LogIdle
       \/ LoggerInit /\ logger.real_time_csv # logger.save_images
    /\ ScanIdle
NextOpt ==
    \/ OptPropose \/ OptSetDofs \/ OptEvaluate \/ OptTell \/ OptLog \/ OptBest
    \/ OptSaveCsv \/ OptPlot \/ OptReturn
Spec == InitOpt /\ [][NextOpt]_vars

(***************************************************************************)
(* The scan generator (scan_generator.py).  A ScanGenerator is built, then *)
(* a caller runs scan_single_dof on one of its tasks, or                   *)
(* generate_all_scans, which takes the task names in order, builds a new   *)
(* adapter and a new task for each and scans its DOFs one after another.   *)
(* The images and GIF files the scans leave are not part of the state.     *)
(***************************************************************************)
\* most points per scan
MaxPoints == 2

\* the keys of self.tasks, in insertion order
TaskNames == << "UndulatorPointing", "BeamSteering", "Transfocator", "VonHamos" >>

\* the 1-based position that the Python index j selects in a list of
\* length n (a negative index counts from the end)
PyIndex(j, n) == IF j >= 0 THEN j + 1 ELSE n + j + 1

\* new_dofs = default_dofs.copy(); new_dofs[dof_index] = value
new_dofs(default_dofs, dof_index, value) ==
    [default_dofs EXCEPT ![PyIndex(dof_index, Len(default_dofs))] = value]

\* scan_values[i] = np.linspace(dof_bounds[0], dof_bounds[1], self.n_points)[i]
scan_value(dof_index, k) ==
    linspace(get_bounds[PyIndex(dof_index, Len(get_bounds))], n_points, k)

\* a mutated scan_single_dof that returns right after its loop
AfterScanLoop_noreset == "returned"

\* after the loop: task.set_dofs(self.default_values[task_name])
AfterScanLoop == "reset"

\* scan_single_dof can be entered: no scan is running
ScanFree(caller) ==
    \/ scan.pc \in {"idle", "returned", "skipped"}
    \/ scan.pc = "raised" /\ scan.caller = "direct" /\ caller = "direct"

\* scan_single_dof(task_name, dof_index, task) up to its loop
scan_single_dof(caller, dof_index) ==
    LET n == Len(get_bounds)
        frame == [pc |-> "idle", caller |-> caller, dof_index |-> dof_index,
                  default_dofs |-> << >>, i |-> 0, calls |-> NoCalls]
    IN  IF dof_index >= n
        THEN \* print(... out of range ...); return
             scan' = [frame EXCEPT !.pc = "skipped"]
        ELSE IF dof_index < 0 - n
        THEN \* bounds[dof_index] raises IndexError
             scan' = [frame EXCEPT !.pc = "raised"]
        ELSE scan' = [frame EXCEPT !.pc = IF n_points > 0 THEN "set" ELSE AfterScanLoop,
                                   !.default_dofs = default_values]

\* a caller runs scan_single_dof on a task of generator.tasks
ScanSingleDof ==
    /\ mode = "scan" /\ gen.k = 0
    /\ ScanFree("direct")
    /\ \E j \in (0 - Len(get_bounds) - 1)..Len(get_bounds) : scan_single_dof("direct", j)
    /\ UNCHANGED <<mode, adapterVars, taskVars, callVars, optVars, logVars, sims,
                   default_values, n_points, gen>>

\* self.sim = mfx.MFX(...); self.sim.propagate(); task = TaskClass(self.sim):
\* the adapter and the task of class v are as TaskInit leaves them
NewTask(v) ==
    /\ variant' = v
    /\ beam_params' = [ax |-> 0, ay |-> 0]
    /\ mr1l4_pitch' = PitchDefault
    /\ tfs' = [c \in CrlIds |-> [x |-> 0, y |-> 0]]
    /\ det' \in ReadingsOf(v)
    /\ plot' = NoPlot
    /\ IF v = "Transfocator"
       THEN /\ crl_enabled' \in [CrlIds -> BOOLEAN]
            /\ \E c \in CrlIds : crl_enabled'[c]
            /\ enabled_crls' = EnabledFrom(FirstCrl, crl_enabled')
       ELSE /\ crl_enabled' = [c \in CrlIds |-> TRUE]
            /\ enabled_crls' = << >>
    /\ IF v = "VonHamos"
       THEN /\ \E nom \in Nominals, rg \in VonHamosRanges :
                  /\ vh_bounds' = << <<nom[1] - rg[1], nom[1] + rg[1]>>,
                                     <<nom[2] - rg[2], nom[2] + rg[2]>>,
                                     <<nom[3] - rg[3], nom[3] + rg[3]>> >>
                  /\ last_vals' = nom
            /\ pf' = "False"
       ELSE /\ vh_bounds' = << >> /\ last_vals' = << >>
            /\ pf' = "unset"
    /\ last_plot' = "None"
    /\ call' = NoCall
    /\ last_eval' = NoEval
    /\ bounds0' = get_bounds'

\* generate_all_scans, head of the loop over the task names:
\* self._reinitialize_simulation(); task = TaskClass(self.sim);
\* self.default_values[task_name] = task.get_dofs().copy()
GenNextTask ==
    /\ mode = "scan"
    /\ \/ gen.k = 0 /\ scan.pc # "set" /\ scan.pc # "eval" /\ scan.pc # "reset"
       \/ gen.k > 0 /\ ScanFree("generate_all_scans") /\ gen.dof = Len(get_bounds)
    /\ gen.k < Len(TaskNames)
    /\ NewTask(TaskNames[gen.k + 1])
    /\ sims' = Append(sims, {variant'})
    /\ default_values' = get_dofs'
    /\ gen' = [k |-> gen.k + 1, dof |-> 0]
    /\ scan' = NoScan
    /\ UNCHANGED <<mode, optVars, logVars, n_points>>

\* generate_all_scans, for dof_index in range(n_dofs):
\* self.scan_single_dof(task_name, dof_index, task)
GenScanDof ==
    /\ mode = "scan" /\ gen.k > 0
    /\ ScanFree("generate_all_scans")
    /\ gen.dof < Len(get_bounds)
    /\ scan_single_dof("generate_all_scans", gen.dof)
    /\ gen' = [gen EXCEPT !.dof = gen.dof + 1]
    /\ UNCHANGED <<mode, adapterVars, taskVars, callVars, optVars, logVars, sims,
                   default_values, n_points>>

\* the loop body, task.set_dofs(new_dofs): nothing catches what it raises
ScanSetDofs ==
    /\ mode = "scan" /\ scan.pc = "set"
    /\ set_dofs(new_dofs(scan.default_dofs, scan.dof_index, scan_value(scan.dof_index, scan.i)))
    /\ scan' = [scan EXCEPT !.pc = IF call'.raised THEN "raised" ELSE "eval",
                            !.calls.set_dofs = 1]
    /\ UNCHANGED <<mode, bounds0, optVars, logVars, sims, default_values, n_points, gen>>

\* the loop body, cost = task.evaluate_objective();
\* task.save_diagnostic(unique_id, task_dir)
ScanEvaluate ==
    /\ mode = "scan" /\ scan.pc = "eval"
    /\ evaluate_objective_frame
    /\ last_eval' = [n |-> IF last_eval.n < 2 THEN last_eval.n + 1 ELSE 2,
                     raised |-> evaluate_objective.raised,
                     val |-> evaluate_objective.val]
    /\ \E imgOk \in BOOLEAN :
          /\ ~imgOk => HasDiagnostic /\ ~evaluate_objective.raised
          /\ scan' = [scan EXCEPT
                !.pc = IF evaluate_objective.raised \/ save_diagnostic(imgOk) = "raised"
                       THEN "raised"
                       ELSE IF scan.i + 1 < n_points THEN "set" ELSE AfterScanLoop,
                !.i = scan.i + 1,
                !.calls.evaluate_objective = 1,
                !.calls.save_diagnostic = IF evaluate_objective.raised THEN 0 ELSE 1]
    /\ UNCHANGED <<mode, call, bounds0, optVars, logVars, sims, default_values, n_points,
                   gen>>

\* task.set_dofs(self.default_values[task_name]), the last statement
ScanReset ==
    /\ mode = "scan" /\ scan.pc = "reset"
    /\ set_dofs(default_values)
    /\ scan' = [scan EXCEPT !.pc = IF call'.raised THEN "raised" ELSE "returned",
                            !.calls.set_dofs = 1]
    /\ UNCHANGED <<mode, bounds0, optVars, logVars, sims, default_values, n_points, gen>>

\* ScanGenerator(output_dir, n_points): one adapter, the four tasks built on
\* it, and the defaults of the task the caller then takes from self.tasks
InitScan ==
    /\ mode = "scan"
    /\ TaskInit
    /\ OptIdle /\ LogIdle
    /\ sims = << { TaskNames[k] : k \in 1..Len(TaskNames) } >>
    /\ default_values = get_dofs
    /\ n_points \in 1..MaxPoints
    /\ gen = NoGen /\ scan = NoScan
NextScan ==
    \/ ScanSingleDof \/ GenNextTask \/ GenScanDof
    \/ ScanSetDofs \/ ScanEvaluate \/ ScanReset
SpecScan == InitScan /\ [][NextScan]_vars

(***************************************************************************)
(* Claims about the task contract (specification SpecTask).                *)
(***************************************************************************)
WellFormed(values) == Len(values) = Len(get_bounds)

\* C2: for every task variant, after a set_dofs whose propagate (ray tracing
\* for VonHamos) failed, evaluate_objective() returns the large penalty and
\* does not raise: both what the next call would return and what the calls
\* made since that set_dofs did return.
C2_PenaltyAfterFailedPropagate ==
    (call.op = "set_dofs" /\ call.pfail) =>
        /\ evaluate_objective = Returned(LARGE_PENALTY)
        /\ last_eval.n > 0 => (~last_eval.raised /\ last_eval.val = LARGE_PENALTY)

C2_Witness ==
    /\ call.op = "set_dofs" /\ call.pfail
    /\ last_eval.n > 0

\* C3 (as claimed): set_dofs never raises to its caller; any adapter failure
\* while a candidate of the right length is written to the motors and
\* propagated is caught, sets propagation_failed, and set_dofs returns.
C3_SetDofsNeverRaises ==
    (call.op = "set_dofs" /\ WellFormed(call.values)) =>
        /\ ~call.raised
        /\ call.pfail => propagation_failed

\* C9: for every task variant len(get_bounds()) = len(get_dofs()) in every
\* state, and get_bounds() keeps returning the bounds it returned right after
\* construction, whatever set_dofs calls and lens enablement changes follow.
C9_BoundsFixed ==
    /\ Len(get_bounds) = Len(get_dofs)
    /\ get_bounds = bounds0

C9_Witness ==
    /\ variant = "Transfocator"
    /\ call.op = "set_dofs" /\ ~call.raised
    /\ EnabledFrom(FirstCrl, crl_enabled) # enabled_crls

\* C10: an evaluate_objective() call changes neither the adapter state nor
\* the propagation_failed flag, and when it follows another
\* evaluate_objective() with no set_dofs in between it returns (or raises)
\* exactly what that one did.
C10_EvaluateIsPure ==
    [][TaskEvaluate =>
        /\ UNCHANGED <<adapterVars, taskVars>>
        /\ last_eval.n > 0 =>
              (last_eval'.raised = last_eval.raised /\ last_eval'.val = last_eval.val)]_vars

C10_Witness ==
    /\ last_eval.n = 2
    /\ ~last_eval.raised
    /\ last_eval.val < LARGE_PENALTY

\* C16 (as claimed): after any set_dofs call with a candidate of the right
\* length, on any task variant, propagation_failed is true exactly when the
\* propagate of that call failed; no value left by an earlier call shows.
C16_FlagReflectsLastSetDofs ==
    (call.op = "set_dofs" /\ WellFormed(call.values)) =>
        (propagation_failed <=> call.pfail)

\* C19 (as claimed): for every task variant, after a set_dofs whose
\* propagate failed, get_observation() returns None and not the readings
\* the detector holds.
C19_NoObservationAfterFailure ==
    (call.op = "set_dofs" /\ call.pfail) => get_observation = None

\* C27 (as claimed): a VonHamosTask whose propagation_failed is false,
\* right after construction included, holds a stored plot, so that
\* get_observation() is not None and evaluate_objective() returns a number.
C27_VonHamosAlwaysEvaluates ==
    (variant = "VonHamos" /\ ~propagation_failed) =>
        /\ get_observation.some
        /\ ~evaluate_objective.raised

FirstMin(h) ==
    CHOOSE m \in 1..Len(h) :
        /\ \A k \in 1..Len(h) : h[m].cost <= h[k].cost
        /\ \A k \in 1..(m - 1) : h[k].cost > h[m].cost

\* C1: in random_search, grid_search and bayesian_optimization a trial whose
\* set_dofs or evaluate_objective raised is given the cost LARGE_PENALTY (the
\* cost that is then logged), the exception never leaves the optimizer, and
\* when the optimizer returns every trial of the budget has been executed.
C1_FailedTrialDoesNotAbort ==
    /\ pc # "aborted"
    /\ \A k \in 1..Len(trials) :
          trials[k].outcome = "raise" => (trials[k].done /\ trials[k].cost = LARGE_PENALTY)
    /\ \A k \in 1..Len(history) : history[k].cost = trials[k].cost
    /\ pc = "done" => (Len(trials) = NTrials /\ \A k \in 1..Len(trials) : trials[k].done)

C1_Witness ==
    /\ pc = "done" /\ logger.on
    /\ Len(trials) >= 2
    /\ trials[1].outcome = "raise"
    /\ trials[2].outcome = "ok"

\* C4: whenever the trial loop is between trials, and when the optimizer
\* returns, best_cost is the least cost of the trials run so far and
\* best_dofs is the candidate of the earliest trial with that cost; so the
\* large penalty is the best cost only if no trial cost less.
C4_BestIsEarliestMinimum ==
    (pc \in {"loop", "plot", "done"} /\ trials # << >>) =>
        LET m == FirstMin(trials) IN
        /\ best_cost = trials[m].cost
        /\ best_dofs = Some(trials[m].cand)
        /\ best_cost = LARGE_PENALTY => \A k \in 1..Len(trials) : trials[k].cost >= LARGE_PENALTY

C4_Witness ==
    /\ pc = "done"
    /\ Len(trials) >= 2
    /\ trials[1].cost = trials[2].cost
    /\ trials[1].cost < LARGE_PENALTY
    /\ trials[1].cand # trials[2].cand

\* C5: while every set_dofs of the run has failed (the motor write raised or
\* the propagate failed), every cost in the logger's history and in the CSV
\* file is LARGE_PENALTY, and an optimizer that returns after at least one
\* trial returns best_cost = LARGE_PENALTY.
C5_AlwaysFailingTask ==
    (\A k \in 1..Len(trials) : trials[k].outcome # "ok") =>
        /\ \A k \in 1..Len(history) : history[k].cost = LARGE_PENALTY
        /\ \A k \in 1..Len(csv) : ~csv[k].hdr => csv[k].cost = LARGE_PENALTY
        /\ (pc = "done" /\ trials # << >>) => best_cost = LARGE_PENALTY

C5_Witness ==
    /\ pc = "done" /\ logger.on /\ logger.real_time_csv
    /\ Len(history) >= 2 /\ Len(csv) >= 3
    /\ trials[1].outcome = "raise"
    /\ trials[2].outcome = "pfail"

\* C6: a grid_search with points_per_dim = p on a task with d DOFs runs
\* exactly p^d trials, every combination of per-axis grid indices is the
\* candidate of exactly one trial, and the candidate handed to set_dofs is
\* the grid point of that combination.
C6_GridExhaustive ==
    (mode = "grid" /\ pc = "done") =>
        LET d == Len(bounds0) IN
        /\ Len(trials) = Pow(budget, d)
        /\ \A t \in [1..d -> 0..(budget - 1)] :
              Cardinality({k \in 1..Len(trials) : trials[k].idx = t}) = 1
        /\ \A k \in 1..Len(trials) : \A j \in 1..d :
              trials[k].cand[j] = linspace(bounds0[j], budget, trials[k].idx[j])

C6_Witness ==
    /\ mode = "grid" /\ pc = "done"
    /\ Len(bounds0) = 2 /\ budget = 2
    /\ Len(trials) = 4

\* v has one component per bound of b, each inside its own bound
InBox(v, b) ==
    /\ Len(v) = Len(b)
    /\ \A j \in 1..Len(b) : b[j][1] <= v[j] /\ v[j] <= b[j][2]

ZeroWidth(b) == \A j \in 1..Len(b) : b[j][1] = b[j][2]

\* C11: in random_search and grid_search the candidate of every trial has
\* its j-th component inside the j-th bound of task.get_bounds(); every row
\* of the grid built for any points_per_dim has too; and when every bound has
\* low = high every trial proposes exactly the point of the lows.
C11_CandidatesInBounds ==
    mode \in {"random", "grid"} =>
        LET b == get_bounds IN
        /\ pc \in {"set", "eval", "log", "best"} => InBox(candidate, b)
        /\ \A k \in 1..Len(trials) : InBox(trials[k].cand, b)
        /\ ZeroWidth(b) =>
              \A k \in 1..Len(trials) :
                 trials[k].cand = [j \in 1..Len(b) |-> b[j][1]]
        /\ (mode = "grid" /\ pc = "loop" /\ i = 0) =>
              \A p \in 1..MaxP : \A r \in 1..Pow(p, Len(b)) :
                 LET point == grid_points(b, p)[r].point IN
                 /\ InBox(point, b)
                 /\ ZeroWidth(b) => \A j \in 1..Len(b) : point[j] = b[j][1]

C11_Witness ==
    /\ mode = "random" /\ pc = "done"
    /\ ZeroWidth(get_bounds)
    /\ Len(trials) >= 2
    /\ trials[1].outcome = "ok" /\ trials[2].outcome = "ok"

\* C13: in an optimizer run no call of log, save_csv or plot_cost_history
\* raises, whatever file operation failed inside it (CSV header or row
\* write, save_csv rewrite, plot save, diagnostic image save); the run is
\* never cut short, takes its next step after a call in which something
\* failed, and returns the best candidate and cost of its trials.
C13_LoggerFailuresIsolated ==
    /\ ~log_call.raised
    /\ io_faults > 0 => pc # "aborted"
    /\ (pc \in {"best", "plot"} /\ (~log_call.io_ok \/ log_call.diag = "raised")) =>
          ENABLED NextOpt
    /\ (io_faults > 0 /\ pc = "done") =>
          /\ Len(trials) = NTrials
          /\ Len(history) = NTrials
          /\ trials # << >> =>
                LET m == FirstMin(trials) IN
                /\ best_cost = trials[m].cost
                /\ best_dofs = Some(trials[m].cand)

C13_Witness ==
    /\ pc = "done"
    /\ log_call.op = "plot_cost_history" /\ ~log_call.io_ok
    /\ Len(trials) >= 2
    /\ best_dofs.some

\* no row write of a log call has failed: the only file operation that may
\* have been cut short is the save_csv that was the last call on the logger
OnlySaveCsvInterrupted ==
    \/ io_faults = 0
    \/ io_faults = 1 /\ log_call.op = "save_csv" /\ ~log_call.io_ok

\* C14 (as claimed): with real_time_csv on, once k log calls have returned
\* the file holds the records of all k trials, also when the end-of-run
\* save_csv has been cut short after it reopened the file.
C14_FileHasEveryLoggedRecord ==
    (logger.real_time_csv /\ OnlySaveCsvInterrupted) =>
        \A k \in 1..Len(history) :
            \E r \in 1..Len(csv) : csv[r] = DataRow(history[k])

\* the index on axis j (1-based) of the combination of row-major rank r
\* (0-based) in a grid of d axes with p points each: last axis fastest
RowMajorIndex(r, j, d, p) == (r \div Pow(p, d - j)) % p

\* C17 (as claimed): grid_search runs the grid points in row-major order of
\* (dof_0, ..., dof_{d-1}): the trial of index i evaluates the combination
\* of row-major rank i, so the last DOF varies fastest and the first slowest.
C17_GridRowMajor ==
    mode = "grid" =>
        \A k \in 1..Len(trials) : \A j \in 1..Len(bounds0) :
            trials[k].idx[j] = RowMajorIndex(k - 1, j, Len(bounds0), budget)

\* C18: in an optimizer run with a logger the history only grows at its
\* end: no step changes or removes a record already in it; its k-th record
\* has index k - 1 and is the record of the k-th trial, failed or not; and
\* when the optimizer returns there is exactly one record per trial of the
\* budget.
C18_HistoryAppendOnly ==
    /\ [](logger.on =>
            /\ \A k \in 1..Len(history) :
                  /\ history[k].trial = k - 1
                  /\ history[k].dofs = trials[k].cand
                  /\ history[k].cost = trials[k].cost
            /\ pc = "done" => Len(history) = NTrials)
    /\ [][/\ Len(history') >= Len(history)
          /\ Len(history') <= Len(history) + 1
          /\ \A k \in 1..Len(history) : history'[k] = history[k]]_vars

C18_Witness ==
    /\ pc = "done" /\ logger.on
    /\ log_call.op = "plot_cost_history"
    /\ Len(history) = NTrials /\ NTrials >= 2
    /\ trials[2].outcome = "pfail"

\* C20: in each of the three optimizers the steps of trial i run in order
\* and trials do not overlap: when set_dofs of trial i is about to be called
\* every earlier trial has been evaluated and logged; evaluate_objective of
\* trial i is called once, after set_dofs of that same candidate has
\* returned; the trial is logged after its cost is known; and no step of
\* trial i + 1 is taken before that.
C20_TrialStepsInOrder ==
    LET logged(n) == logger.on => Len(history) = n
        evaluated(n) == \A k \in 1..n : trials[k].done
    IN
    /\ pc \in {"loop", "set"} =>
          /\ Len(trials) = i /\ evaluated(i) /\ logged(i)
    /\ pc = "eval" =>
          /\ Len(trials) = i + 1 /\ evaluated(i) /\ ~trials[i + 1].done /\ logged(i)
          /\ call.op = "set_dofs" /\ call.values = candidate /\ ~call.raised
          /\ last_eval.n = 0
    /\ pc \in {"tell", "log"} =>
          /\ Len(trials) = i + 1 /\ evaluated(i + 1) /\ logged(i)
          /\ call.op = "set_dofs" /\ call.values = candidate
          /\ trials[i + 1].cand = candidate /\ trials[i + 1].cost = cost
          /\ last_eval.n = (IF call.raised THEN 0 ELSE 1)
    /\ pc = "best" =>
          /\ Len(trials) = i + 1 /\ evaluated(i + 1) /\ logged(i + 1)
          /\ logger.on => (history[i + 1].dofs = candidate /\ history[i + 1].cost = cost)

C20_Witness ==
    /\ pc = "eval" /\ i = 1
    /\ mode = "bayes" /\ logger.on
    /\ trials[1].outcome = "ok"
    /\ trials[1].cand # candidate

\* C21: in bayesian_optimization the candidate got from ask is the one
\* given to set_dofs, and (candidate, cost) of trial k is told exactly once,
\* as the k-th tell, with the cost that is logged for that trial (the large
\* penalty when the evaluation raised), before the ask of the next trial.
C21_AskTellPerTrial ==
    IF mode = "bayes"
    THEN /\ Len(told) = (IF pc \in {"log", "best"} THEN i + 1 ELSE i)
         /\ \A k \in 1..Len(told) :
               /\ told[k].cand = trials[k].cand
               /\ told[k].cost = trials[k].cost
               /\ trials[k].outcome = "raise" => told[k].cost = LARGE_PENALTY
         /\ \A k \in 1..Len(history) :
               history[k].dofs = told[k].cand /\ history[k].cost = told[k].cost
         /\ pc \in {"eval", "tell", "log"} => call.values = candidate
         /\ pc = "done" => Len(told) = NTrials
    ELSE told = << >>

C21_Witness ==
    /\ mode = "bayes" /\ pc = "done" /\ logger.on
    /\ Len(told) = 2 /\ Len(history) = 2
    /\ trials[1].outcome = "raise"
    /\ told[2].cost < LARGE_PENALTY

\* C26: when an optimizer run with a fresh logger returns after at least
\* one trial, the (best_dofs, best_cost) it returns are what
\* logger.get_best_result() returns then: the same cost and, among trials
\* tied for it, the same (earliest) candidate.
C26_OptimizerAgreesWithLogger ==
    (pc = "done" /\ logger.on /\ i > 0) =>
        LET r == get_best_result IN
        /\ r.some /\ ~r.raised
        /\ r.cost = best_cost
        /\ best_dofs = Some(r.dofs)

C26_Witness ==
    /\ pc = "done" /\ logger.on /\ i = 2
    /\ trials[1].cost = trials[2].cost
    /\ trials[1].cand # trials[2].cand

C8_BestResultIsFirstMinimum ==
    history # << >> =>
        LET m == FirstMin(history) IN
        /\ get_best_result.some
        /\ get_best_result.cost = history[m].cost
        /\ get_best_result.dofs = history[m].dofs

C8_Witness ==
    /\ mode = "logger"
    /\ Len(history) >= 3
    /\ history[1].cost > history[2].cost
    /\ history[2].cost = history[3].cost
    /\ history[2].dofs # history[3].dofs

\* C12: when the task's save_diagnostic raised inside log, log returns
\* normally, the record of that trial (index, candidate, cost) is the last
\* entry of the history, and, with real_time_csv on and the CSV write of
\* that call not failed, it is the last row of the file.
C12_DiagnosticFailureKeepsRecord ==
    (log_call.op = "log" /\ log_call.diag = "raised") =>
        /\ ~log_call.raised
        /\ history # << >>
        /\ history[Len(history)].trial = Len(history) - 1
        /\ (logger.real_time_csv /\ log_call.io_ok) =>
              /\ csv # << >>
              /\ csv[Len(csv)] = DataRow(history[Len(history)])

C12_Witness ==
    /\ log_call.op = "log" /\ log_call.diag = "raised"
    /\ logger.real_time_csv /\ log_call.io_ok
    /\ Len(history) >= 2
    /\ Len(images) >= 1

\* the rows of a file that are not header rows
DataPart(file) == SelectSeq(file, LAMBDA r : ~r.hdr)

\* rows are the rows of some of the records of h, in the order of h
RECURSIVE IsSubsequence(_, _)
IsSubsequence(rows, h) ==
    IF rows = << >> THEN TRUE
    ELSE IF h = << >> THEN FALSE
    ELSE IF Head(rows) = DataRow(Head(h)) THEN IsSubsequence(Tail(rows), Tail(h))
    ELSE IsSubsequence(rows, Tail(h))

\* C29: the data rows of the CSV file are always rows of records of the
\* history, in its order; every log call has its record in the history
\* whether or not its file write failed; and right after a save_csv() that
\* succeeded on a non-empty history the file is one header followed by the
\* row of every record, in order.
C29_FileIsSubsequenceOfHistory ==
    /\ IsSubsequence(DataPart(csv), history)
    /\ \A k \in 1..Len(history) : history[k].trial = k - 1
    /\ (log_call.op = "log" /\ ~log_call.io_ok) => history # << >>
    /\ (log_call.op = "save_csv" /\ log_call.io_ok /\ history # << >>) =>
          csv = << HeaderRow(history[1]) >> \o DataRows(history)

C29_Witness ==
    /\ logger.real_time_csv /\ ~logger.save_images
    /\ io_faults = 1 /\ Len(history) >= 2
    /\ log_call.op = "save_csv" /\ log_call.io_ok
    /\ csv = << HeaderRow(history[1]) >> \o DataRows(history)

(***************************************************************************)
(* Claims about reading the history back (specification SpecRead).         *)
(***************************************************************************)
\* C15: a get_best_result() call on an empty history returns the pair
\* (None, None) and does not raise.
C15_EmptyHistoryNoData ==
    (best_result.called /\ history = << >>) =>
        /\ ~best_result.r.raised
        /\ ~best_result.r.some
        /\ best_result.r = NoBest

C15_Witness ==
    /\ best_result.called
    /\ history = << >>
    /\ log_call.op = "plot_cost_history"

\* the positions among the first n records of the history whose cost is
\* below the penalty threshold
BelowThreshold(n) == { k \in 1..n : history[k].cost < LARGE_PENALTY }

\* C22: the plot drawn from the first n records of the history has in its
\* scatter series exactly the (trial, cost) pairs of the records whose cost
\* is below the penalty threshold, in trial order; its best-so-far series
\* has one value per record, undefined (NaN) until the first such record and
\* from then on the least such cost seen so far, hence never increasing.
C22_PlotSeries ==
    png.drawn =>
        LET n == Len(png.best_so_far) IN
        /\ n >= 1 /\ n <= Len(history)
        /\ Len(png.scatter) = Cardinality(BelowThreshold(n))
        /\ \A k \in BelowThreshold(n) :
              png.scatter[Cardinality(BelowThreshold(k))] = <<history[k].trial, history[k].cost>>
        /\ \A k \in 1..n :
              IF BelowThreshold(k) = {}
              THEN png.best_so_far[k] = NaN
              ELSE /\ ~png.best_so_far[k].nan
                   /\ \E j \in BelowThreshold(k) : png.best_so_far[k].v = history[j].cost
                   /\ \A j \in BelowThreshold(k) : png.best_so_far[k].v <= history[j].cost
        /\ \A k \in 2..n :
              ~png.best_so_far[k - 1].nan =>
                  (~png.best_so_far[k].nan /\ png.best_so_far[k].v <= png.best_so_far[k - 1].v)

C22_Witness ==
    /\ png.drawn
    /\ Len(png.best_so_far) = 3
    /\ png.best_so_far[1].nan
    /\ ~png.best_so_far[2].nan
    /\ png.best_so_far[3].v < png.best_so_far[2].v
    /\ Len(png.scatter) = 2

\* C23 (as claimed): for a history that has been both plotted and queried,
\* the best cost get_best_result() returned and the last value of the
\* plot's best-so-far series agree, and neither counts a cost at or above
\* the penalty threshold: both give the same cost or both give none.
C23_OneBestRule ==
    (/\ png.drawn /\ Len(png.best_so_far) = Len(history)
     /\ best_result.called /\ best_result.r = get_best_result) =>
        LET last == png.best_so_far[Len(history)] IN
        /\ last.nan <=> ~best_result.r.some
        /\ best_result.r.some =>
              (best_result.r.cost = last.v /\ best_result.r.cost < LARGE_PENALTY)

(***************************************************************************)
(* Claims about the scan generator (specification SpecScan).               *)
(***************************************************************************)
\* C24 (as claimed): a scan_single_dof call whose dof_index lies outside
\* 0 .. len(get_bounds()) - 1 reports it and returns without any call of
\* set_dofs, evaluate_objective or save_diagnostic on the task.
C24_OutOfRangeIndexSkipped ==
    (scan.pc # "idle" /\ scan.dof_index \notin 0..(Len(get_bounds) - 1)) =>
        /\ scan.pc = "skipped"
        /\ scan.calls = NoCalls

\* C25 (as claimed): at every point of a campaign or scan session no
\* adapter instance has more than one task built on it.
C25_OneTaskPerAdapter ==
    \A s \in 1..Len(sims) : Cardinality(sims[s]) <= 1

\* C30: in a scan of DOF j every vector given to set_dofs has the length of
\* the stored defaults and differs from them at most at position j; the
\* stored defaults stay what they were when the scan started; when the scan
\* returns, the last set_dofs was given the stored defaults and returned,
\* and get_dofs() is the stored defaults; so generate_all_scans starts each
\* scan with the task at its defaults.
C30_ScanVariesOneDofAndResets ==
    LET pos == PyIndex(scan.dof_index, Len(default_values)) IN
    /\ scan.calls.set_dofs > 0 =>
          /\ call.op = "set_dofs"
          /\ Len(call.values) = Len(default_values)
          /\ \A q \in 1..Len(default_values) :
                q # pos => call.values[q] = default_values[q]
    /\ scan.pc \in {"set", "eval", "reset", "returned"} =>
          default_values = scan.default_dofs
    /\ scan.pc = "returned" =>
          /\ call.op = "set_dofs" /\ ~call.raised
          /\ call.values = default_values
          /\ get_dofs = default_values
    /\ (scan.caller = "generate_all_scans" /\ scan.pc = "set" /\ scan.i = 0) =>
          get_dofs = default_values

C30_Witness ==
    /\ scan.caller = "generate_all_scans" /\ scan.dof_index = 1
    /\ scan.pc = "returned" /\ scan.i = 2
    /\ scan_value(1, 1) # default_values[2]

=============================================================================
